---- MODULE Spec2Model ----
(***************************************************************************)
(* A model of the ULID library bold-minds/id (src/gen.go).                 *)
(*                                                                         *)
(* The library is a thin layer over github.com/oklog/ulid (v1): every      *)
(* operation of gen.go calls ulid.Parse, ulid.MustNew, ulid.Timestamp,     *)
(* ulid.Monotonic or a method of ulid.ULID.  Those calls are modelled by   *)
(* what that package does, at the place gen.go calls them.                 *)
(*                                                                         *)
(* Scaling.  A real ULID is 26 characters of 5 bits, the first character   *)
(* holding 3 bits: 10 characters (48 bits) of timestamp and 16 characters  *)
(* (80 bits) of randomness.  The model keeps the layout and scales the     *)
(* number of characters: TimeChars characters of timestamp (the first      *)
(* holding 3 bits) and RandChars characters of randomness.  A ULID value   *)
(* is its big-endian sequence of bits, a text is a sequence of one         *)
(* character strings.  An instant (time.Time) is a count of ticks since    *)
(* the Unix epoch and a time.Duration a count of ticks: the tick scales    *)
(* the nanosecond, Millisecond ticks making one millisecond.               *)
(***************************************************************************)
EXTENDS Integers, Sequences, FiniteSets, TLC

\* ------------------------------------------------------------------ bounds
TimeChars == 1
RandChars == 1

EncodedSize == TimeChars + RandChars
TimeBits == 5 * TimeChars - 2
RandBits == 5 * RandChars
IdBits == TimeBits + RandBits

RECURSIVE Pow2(_)
Pow2(n) == IF n = 0 THEN 1 ELSE 2 * Pow2(n - 1)

maxTime == Pow2(TimeBits) - 1
maxRand == Pow2(RandBits) - 1

\* ------------------------------------------------------------- characters
Digits == <<"0", "1", "2", "3", "4", "5", "6", "7", "8", "9">>
Upper == <<"A", "B", "C", "D", "E", "F", "G", "H", "I", "J", "K", "L", "M",
           "N", "O", "P", "Q", "R", "S", "T", "U", "V", "W", "X", "Y", "Z">>
Lower == <<"a", "b", "c", "d", "e", "f", "g", "h", "i", "j", "k", "l", "m",
           "n", "o", "p", "q", "r", "s", "t", "u", "v", "w", "x", "y", "z">>

\* The Crockford base32 alphabet of the text form.
Encoding == <<"0", "1", "2", "3", "4", "5", "6", "7", "8", "9",
              "A", "B", "C", "D", "E", "F", "G", "H", "J", "K",
              "M", "N", "P", "Q", "R", "S", "T", "V", "W", "X", "Y", "Z">>

IndexOf(seq, c) == CHOOSE i \in 1..Len(seq) : seq[i] = c
InSeq(seq, c) == \E i \in 1..Len(seq) : seq[i] = c

\* The characters of the model; "-" stands for the bytes below "0".
Chars ==
    {Digits[i] : i \in 1..Len(Digits)} \cup {Upper[i] : i \in 1..Len(Upper)}
        \cup {Lower[i] : i \in 1..Len(Lower)} \cup {"-"}

\* The byte value (ASCII) of a character.
ordTable ==
    [c \in Chars |->
        IF InSeq(Digits, c) THEN 47 + IndexOf(Digits, c)
        ELSE IF InSeq(Upper, c) THEN 64 + IndexOf(Upper, c)
        ELSE IF InSeq(Lower, c) THEN 96 + IndexOf(Lower, c)
        ELSE 45]
Ord(c) == ordTable[c]

\* strings.ToUpper on one character.
upperTable == [c \in Chars |-> IF InSeq(Lower, c) THEN Upper[IndexOf(Lower, c)] ELSE c]
UpperChar(c) == upperTable[c]

ToUpper(s) == [i \in 1..Len(s) |-> UpperChar(s[i])]

\* The decoding table of the base32 alphabet: the 5-bit value of a character
\* of the alphabet in either case, 255 (0xFF) for every other byte.
dec ==
    [c \in Chars |->
        IF InSeq(Encoding, UpperChar(c)) THEN IndexOf(Encoding, UpperChar(c)) - 1 ELSE 255]
Dec(c) == dec[c]

\* ------------------------------------------------------------------- bits
\* The w-bit big-endian representation of n (n taken modulo 2^w).
BitsOf(n, w) == [k \in 1..w |-> (n \div Pow2(w - k)) % 2]

RECURSIVE ValOf(_)
ValOf(bits) ==
    IF Len(bits) = 0 THEN 0
    ELSE 2 * ValOf(SubSeq(bits, 1, Len(bits) - 1)) + bits[Len(bits)]

ZeroULID == [k \in 1..IdBits |-> 0]

\* ------------------------------------------------------------------ codec
\* ulid.Parse: the length check, the overflow check on the first byte, then
\* the decoding, which ORs the table value of each character, shifted to the
\* place of its 5 bits, into the value.  Parse is the non-strict parser: it
\* makes no check that the characters are in the alphabet, so the 0xFF of a
\* character outside it is ORed in like any other value.
ParseBit(v, k) ==
    IF \E i \in 1..EncodedSize :
           LET s == k - 5 * (EncodedSize - i)
           IN  s \in 0..7 /\ (Dec(v[i]) \div Pow2(s)) % 2 = 1
    THEN 1 ELSE 0

Parse(v) ==
    IF Len(v) # EncodedSize THEN [err |-> "ErrDataSize", id |-> ZeroULID]
    ELSE IF Ord(v[1]) > Ord("7") THEN [err |-> "ErrOverflow", id |-> ZeroULID]
    ELSE [err |-> "", id |-> [j \in 1..IdBits |-> ParseBit(v, IdBits - j)]]

\* A String that takes its 5-bit groups from the front of the value.
StringUnpadded(id) ==
    LET padded == id \o <<0, 0>>
    IN  [i \in 1..EncodedSize |->
            Encoding[ValOf(SubSeq(padded, 5 * (i - 1) + 1, 5 * i)) + 1]]

\* A String that writes the letters of the alphabet in lowercase.
StringLower(id) ==
    LET padded == <<0, 0>> \o id
        lowercase == <<"0", "1", "2", "3", "4", "5", "6", "7", "8", "9",
                       "a", "b", "c", "d", "e", "f", "g", "h", "j", "k",
                       "m", "n", "p", "q", "r", "s", "t", "v", "w", "x", "y", "z">>
    IN  [i \in 1..EncodedSize |->
            lowercase[ValOf(SubSeq(padded, 5 * (i - 1) + 1, 5 * i)) + 1]]

\* ULID.String: one character of the alphabet for every 5 bits, the first
\* character for the 3 leading bits.
String(id) ==
    LET padded == <<0, 0>> \o id
    IN  [i \in 1..EncodedSize |->
            Encoding[ValOf(SubSeq(padded, 5 * (i - 1) + 1, 5 * i)) + 1]]

\* ULID.Time and ULID.Entropy: the two fields of the value.
Time(id) == ValOf(SubSeq(id, 1, TimeBits))
Entropy(id) == ValOf(SubSeq(id, TimeBits + 1, IdBits))

\* ULID.Compare is bytes.Compare of the two values: the first position where
\* they differ decides.
RECURSIVE BytesCompare(_, _)
BytesCompare(x, y) ==
    IF Len(x) = 0 /\ Len(y) = 0 THEN 0
    ELSE IF Len(x) = 0 THEN -1
    ELSE IF Len(y) = 0 THEN 1
    ELSE IF x[1] < y[1] THEN -1
    ELSE IF x[1] > y[1] THEN 1
    ELSE BytesCompare(Tail(x), Tail(y))

\* ------------------------------------------------- validation, comparison
IsIdValid(s) == Parse(s).err = ""

ValidateAndNormalize(s) ==
    IF s = <<>> THEN [val |-> <<>>, err |-> "empty ULID string"]
    ELSE LET parsed == Parse(ToUpper(s))
         IN  IF parsed.err # "" THEN [val |-> <<>>, err |-> parsed.err]
             ELSE [val |-> String(parsed.id), err |-> ""]

CompareTimeOnly(id1, id2) ==
    LET ulid1 == Parse(id1)
        ulid2 == Parse(id2)
    IN  IF ulid1.err # "" THEN [val |-> 0, err |-> "invalid first ULID"]
        ELSE IF ulid2.err # "" THEN [val |-> 0, err |-> "invalid second ULID"]
        ELSE [val |-> BytesCompare(SubSeq(ulid1.id, 1, TimeBits),
                                   SubSeq(ulid2.id, 1, TimeBits)), err |-> ""]

Compare(id1, id2) ==
    LET ulid1 == Parse(id1)
        ulid2 == Parse(id2)
    IN  IF ulid1.err # "" THEN [val |-> 0, err |-> "invalid first ULID"]
        ELSE IF ulid2.err # "" THEN [val |-> 0, err |-> "invalid second ULID"]
        ELSE [val |-> BytesCompare(ulid1.id, ulid2.id), err |-> ""]

IsBefore(id1, id2) ==
    LET cmp == Compare(id1, id2)
    IN  IF cmp.err # "" THEN [val |-> FALSE, err |-> cmp.err]
        ELSE [val |-> cmp.val < 0, err |-> ""]

IsAfter(id1, id2) ==
    LET cmp == Compare(id1, id2)
    IN  IF cmp.err # "" THEN [val |-> FALSE, err |-> cmp.err]
        ELSE [val |-> cmp.val > 0, err |-> ""]

ToBytes(s) ==
    LET parsed == Parse(s)
    IN  IF parsed.err # "" THEN [val |-> ZeroULID, err |-> parsed.err]
        ELSE [val |-> parsed.id, err |-> ""]

FromBytes(data) == String(data)

\* ToUUID: the bytes in lowercase hexadecimal, in the five groups that end
\* after 8, 12, 16, 20 and 32 digits, with "-" between the groups. A value of
\* fewer digits fills the groups from the first and leaves the rest empty.
hextable == <<"0", "1", "2", "3", "4", "5", "6", "7", "8", "9",
              "a", "b", "c", "d", "e", "f">>
HexDigits == (IdBits + 3) \div 4
GroupEnds == <<0, 8, 12, 16, 20, 32>>
Min(x, y) == IF x < y THEN x ELSE y

Sprintfx(bytes) ==
    LET padded == BitsOf(0, 4 * HexDigits - IdBits) \o bytes
    IN  [i \in 1..HexDigits |->
            hextable[ValOf(SubSeq(padded, 4 * (i - 1) + 1, 4 * i)) + 1]]

ToUUID(id) ==
    LET bytes == ToBytes(id)
        digits == Sprintfx(bytes.val)
        group(k) == SubSeq(digits, Min(GroupEnds[k], HexDigits) + 1,
                           Min(GroupEnds[k + 1], HexDigits))
    IN  IF bytes.err # "" THEN [val |-> <<>>, err |-> bytes.err]
        ELSE [val |-> group(1) \o <<"-">> \o group(2) \o <<"-">> \o group(3)
                        \o <<"-">> \o group(4) \o <<"-">> \o group(5),
              err |-> ""]

\* ------------------------------------------------------- the generator
\* Bounds of the state machine.
NumProcs == 2
MaxClock == 1
MaxMints == 2
MaxCount == 2
IncMax == 2

Procs == 1..NumProcs

\* The generator instances: two made by NewGenerator, one by
\* NewSecureGenerator, one by NewGeneratorWithEntropy.
Gens == {"g1", "g2", "secure", "custom"}

\* The entropy source of an instance.  NewGenerator stores the package
\* variable entropy, the one monotonic reader of the process, in every
\* instance it makes; the other two constructors store a plain reader.
entropySource(g) ==
    IF g \in {"g1", "g2"} THEN "entropy"
    ELSE IF g = "secure" THEN "rand.Reader"
    ELSE "custom"

WordBits == TimeBits + 2

\* time.Millisecond: the ticks of one millisecond.
Millisecond == 2

\* The instants a caller passes: before the epoch (one of them so far before
\* it that its unsigned milliseconds wrap back into the range of SetTime), in
\* range and not on a whole millisecond (the last tick of the range is one),
\* past 2^TimeBits-1.
GivenTimes ==
    {(2 - Pow2(WordBits)) * Millisecond, -1, Millisecond + 1,
     (maxTime + 1) * Millisecond - 1, (maxTime + 1) * Millisecond}

\* Values the read of an entropy source can return (the extremes included).
ReadValues == {0, 1, maxRand}

\* ulid.Timestamp: the whole milliseconds of the instant (t.Unix() seconds
\* and t.Nanosecond() / 1e6, both rounded down) converted to an unsigned
\* word, so an instant before the epoch wraps to a large value.  The word is
\* scaled with the timestamp (64 bits for 48 in the library).
UnixMilli(t) == t \div Millisecond
Timestamp(t) == UnixMilli(t) % Pow2(WordBits)

\* A greatest integer below the greatest timestamp.
maxIntNarrow == Pow2(TimeBits - 1) - 1

\* int64, scaled like the unsigned word: its extremes, the wrap of a product
\* that does not fit, and the quotient of Go, which truncates toward zero.
maxInt64 == Pow2(WordBits - 1) - 1
minInt64 == 0 - Pow2(WordBits - 1)
Int64(x) == ((x - minInt64) % Pow2(WordBits)) + minInt64
Quo(x, y) == IF x >= 0 THEN x \div y ELSE 0 - ((0 - x) \div y)

\* Time.Sub: the duration t - u, saturated at the extremes of int64.
Sub(t, u) ==
    IF t - u > maxInt64 THEN maxInt64
    ELSE IF t - u < minInt64 THEN minInt64
    ELSE t - u

\* MonotonicRead of the reader ulid.Monotonic(_, 0) returns, on its state m
\* (the last timestamp and the last randomness): when the timestamp is the
\* last one and the last randomness is not zero, the last randomness plus a
\* random increment in 1..inc, an overflow of the randomness being an error
\* (the state keeps the wrapped sum); otherwise a fresh read r.
MonotonicRead(m, ms, r, inc) ==
    IF m.entropy # 0 /\ m.ms = ms
    THEN LET sum == m.entropy + inc
         IN  [m |-> [ms |-> m.ms, entropy |-> sum % Pow2(RandBits)],
              entropy |-> sum % Pow2(RandBits),
              err |-> IF sum > maxRand THEN "ErrMonotonicOverflow" ELSE ""]
    ELSE [m |-> [ms |-> ms, entropy |-> r], entropy |-> r, err |-> ""]

\* The value ulid.New builds: SetTime writes the timestamp big-endian into the
\* leading bytes, the randomness fills the rest.
AssembleEntropyFirst(ms, e) == BitsOf(e, RandBits) \o BitsOf(ms, TimeBits)
Assemble(ms, e) == BitsOf(ms, TimeBits) \o BitsOf(e, RandBits)

\* ulid.New(ms, source): SetTime rejects a timestamp above maxTime; the
\* randomness is MonotonicRead for the monotonic reader and a plain read of
\* the source otherwise (readOk: whether the read of a custom source succeeds).
New(ms, source, m, r, inc, readOk) ==
    IF ms > maxTime THEN [id |-> ZeroULID, m |-> m, err |-> "ErrBigTime"]
    ELSE IF source = "entropy"
    THEN LET got == MonotonicRead(m, ms, r, inc)
         IN  [id |-> Assemble(ms, got.entropy), m |-> got.m, err |-> got.err]
    ELSE IF source = "custom" /\ ~readOk
    THEN [id |-> ZeroULID, m |-> m, err |-> "ErrRead"]
    ELSE [id |-> Assemble(ms, r), m |-> m, err |-> ""]

\* ----------------------------------------------------------- timestamps
\* The zero time.Time (year 1), before every instant of the model.
ZeroTime == 0 - Pow2(WordBits + 1) * Millisecond

\* An ExtractTimestamp that takes the parsed milliseconds for ticks.
ExtractTimestampUnscaled(id) ==
    LET parsed == Parse(id)
    IN  IF parsed.err # "" THEN [val |-> ZeroTime, err |-> "invalid ULID"]
        ELSE [val |-> Time(parsed.id), err |-> ""]

\* ExtractTimestamp: the timestamp of the parsed value, in milliseconds, split
\* into seconds and the nanoseconds of the rest, which time.Unix joins again.
ExtractTimestamp(id) ==
    LET parsed == Parse(id)
        timestampMs == Time(parsed.id)
        seconds == timestampMs \div 1000
        nanoseconds == (timestampMs % 1000) * Millisecond
    IN  IF parsed.err # "" THEN [val |-> ZeroTime, err |-> "invalid ULID"]
        ELSE IF timestampMs > maxInt64
        THEN [val |-> ZeroTime, err |-> "timestamp too large"]
        ELSE [val |-> seconds * 1000 * Millisecond + nanoseconds, err |-> ""]

\* ---------------------------------------------------------- collections
\* sort.Slice(x, less) on a slice shorter than 13 elements is an insertion
\* sort: element i sinks while less(j, j-1) holds, by swaps of neighbours.
\* The two less functions of gen.go: the one of SortChronologically compares
\* the elements now at i and j (a failed comparison is "not less"), the one of
\* AnalyzeIDs compares timestamps[i] and timestamps[j].
Swap(x, i, j) == [x EXCEPT ![i] = x[j], ![j] = x[i]]

less(by, x, timestamps, i, j) ==
    IF by = "Compare"
    THEN LET cmp == Compare(x[i], x[j])
         IN  IF cmp.err # "" THEN FALSE ELSE cmp.val < 0
    ELSE timestamps[i] < timestamps[j]

RECURSIVE insertDown(_, _, _, _)
insertDown(by, x, timestamps, j) ==
    IF j > 1 /\ less(by, x, timestamps, j, j - 1)
    THEN insertDown(by, Swap(x, j, j - 1), timestamps, j - 1)
    ELSE x

RECURSIVE insertionSort(_, _, _, _)
insertionSort(by, x, timestamps, i) ==
    IF i > Len(x) THEN x
    ELSE insertionSort(by, insertDown(by, x, timestamps, i), timestamps, i + 1)

\* A longer slice goes through pdqsort. For a slice of 13 elements (the
\* longest of the model) this is: choosePivot takes the median of the elements
\* at the three quarters; a slice found in order at the first look is left as
\* it is; otherwise partition puts the pivot first and exchanges, from both
\* ends, the elements that are not less than the pivot with those that are
\* not greater, and each side of the pivot, of 12 elements at most, is sorted
\* by insertion. (The branches of pdqsort for still longer slices, the
\* ninther, breakPatterns, partitionEqual and heapSort, are not reached.)
maxInsertion == 12

RECURSIVE insertDownTo(_, _, _, _, _)
insertDownTo(by, x, timestamps, j, a) ==
    IF j > a /\ less(by, x, timestamps, j, j - 1)
    THEN insertDownTo(by, Swap(x, j, j - 1), timestamps, j - 1, a)
    ELSE x

\* insertionSort of the positions a..b; i is the next element to sink.
RECURSIVE insertionSortRange(_, _, _, _, _, _)
insertionSortRange(by, x, timestamps, a, b, i) ==
    IF i > b THEN x
    ELSE insertionSortRange(by, insertDownTo(by, x, timestamps, i, a),
                            timestamps, a, b, i + 1)

order2(by, x, timestamps, a, b, swaps) ==
    IF less(by, x, timestamps, b, a)
    THEN [a |-> b, b |-> a, swaps |-> swaps + 1]
    ELSE [a |-> a, b |-> b, swaps |-> swaps]

\* median: order2 on (a, b), then on (b, c), then on (a, b) again; the
\* middle one is the pivot. Each step is handed the result of the one before.
medianLast(by, x, timestamps, ab, bc) ==
    order2(by, x, timestamps, ab.a, bc.a, bc.swaps)

medianNext(by, x, timestamps, c, ab) ==
    medianLast(by, x, timestamps, ab,
               order2(by, x, timestamps, ab.b, c, ab.swaps))

median(by, x, timestamps, a, b, c) ==
    medianNext(by, x, timestamps, c, order2(by, x, timestamps, a, b, 0))

pivotHint(m) ==
    [pivot |-> m.b,
     hint |-> IF m.swaps = 0 THEN "increasingHint" ELSE "unknownHint"]

choosePivot(by, x, timestamps, a, b) ==
    LET l == b - a + 1
        i == a + (l \div 4) * 1
        j == a + (l \div 4) * 2
        k == a + (l \div 4) * 3
    IN  IF l >= 8
        THEN pivotHint(median(by, x, timestamps, i, j, k))
        ELSE [pivot |-> j, hint |-> "increasingHint"]

\* partialInsertionSort on a slice too short to shift elements: true when
\* no element is less than the one before it.
partialInsertionSort(by, x, timestamps, a, b) ==
    \A i \in (a + 1)..b : ~less(by, x, timestamps, i, i - 1)

\* The scans of partition; the pivot is at a.
RECURSIVE scanUp(_, _, _, _, _, _)
scanUp(by, x, timestamps, a, i, j) ==
    IF i <= j /\ less(by, x, timestamps, i, a)
    THEN scanUp(by, x, timestamps, a, i + 1, j) ELSE i

RECURSIVE scanDownGreater(_, _, _, _, _, _)
scanDownGreater(by, x, timestamps, a, i, j) ==
    IF i <= j /\ less(by, x, timestamps, a, j)
    THEN scanDownGreater(by, x, timestamps, a, i, j - 1) ELSE j

RECURSIVE scanDown(_, _, _, _, _, _)
scanDown(by, x, timestamps, a, i, j) ==
    IF i <= j /\ ~less(by, x, timestamps, j, a)
    THEN scanDown(by, x, timestamps, a, i, j - 1) ELSE j

\* After the two scans have stopped at i and j: the pivot goes to j when they
\* have crossed, otherwise the two elements change places and the loop of
\* partition goes on between them.
RECURSIVE partitionLoop(_, _, _, _, _, _)
exchange(by, x, timestamps, a, i, j) ==
    IF i > j THEN [x |-> Swap(x, j, a), mid |-> j]
    ELSE partitionLoop(by, Swap(x, i, j), timestamps, a, i + 1, j - 1)

partitionLoopDown(by, x, timestamps, a, i, j0) ==
    exchange(by, x, timestamps, a, i, scanDown(by, x, timestamps, a, i, j0))

partitionLoop(by, x, timestamps, a, i0, j0) ==
    partitionLoopDown(by, x, timestamps, a,
                      scanUp(by, x, timestamps, a, i0, j0), j0)

partitionDown(by, x, timestamps, a, i, b) ==
    exchange(by, x, timestamps, a, i,
             scanDownGreater(by, x, timestamps, a, i, b))

partition(by, x, timestamps, a, b, pivot) ==
    partitionDown(by, Swap(x, a, pivot), timestamps, a,
                  scanUp(by, Swap(x, a, pivot), timestamps, a, a + 1, b), b)

\* The two sides of the pivot, each sorted by insertion.
sortSides(by, parted, timestamps, b) ==
    insertionSortRange(
        by,
        insertionSortRange(by, parted.x, timestamps, 1, parted.mid - 1, 2),
        timestamps, parted.mid + 1, b, parted.mid + 2)

pdqsortFrom(by, x, timestamps, b, chosen) ==
    IF /\ chosen.hint = "increasingHint"
       /\ partialInsertionSort(by, x, timestamps, 1, b)
    THEN x
    ELSE sortSides(by, partition(by, x, timestamps, 1, b, chosen.pivot),
                   timestamps, b)

pdqsort(by, x, timestamps) ==
    pdqsortFrom(by, x, timestamps, Len(x),
                choosePivot(by, x, timestamps, 1, Len(x)))

\* An insertion sort that starts one element late.
sortSliceLate(by, x, timestamps) == insertionSort(by, x, timestamps, 3)
sortSlice(by, x, timestamps) ==
    IF Len(x) <= maxInsertion THEN insertionSort(by, x, timestamps, 2)
    ELSE pdqsort(by, x, timestamps)

\* The zero Stats.
ZeroStats ==
    [Count |-> 0, TimeSpan |-> 0, FirstID |-> <<>>, LastID |-> <<>>,
     FirstTime |-> ZeroTime, LastTime |-> ZeroTime]

Extracts(id) == ExtractTimestamp(id).err = ""

\* An AnalyzeIDs that counts every entry.
AnalyzeIDsCountAll(ids) ==
    LET validIDs == SelectSeq(ids, Extracts)
        timestamps == [k \in 1..Len(validIDs) |-> ExtractTimestamp(validIDs[k]).val]
    IN  IF Len(ids) = 0 THEN [val |-> ZeroStats, err |-> ""]
        ELSE IF Len(validIDs) = 0
        THEN [val |-> ZeroStats, err |-> "no valid ULIDs found"]
        ELSE [val |-> [Count |-> Len(ids), TimeSpan |-> 0, FirstID |-> <<>>,
                       LastID |-> <<>>, FirstTime |-> timestamps[1],
                       LastTime |-> timestamps[Len(timestamps)]],
              err |-> ""]

\* AnalyzeIDs: the entries ExtractTimestamp accepts go to validIDs and their
\* instants to timestamps; sort.Slice then reorders validIDs (and only
\* validIDs) by a less that reads timestamps.
AnalyzeIDs(ids) ==
    LET validIDs == SelectSeq(ids, Extracts)
        timestamps == [k \in 1..Len(validIDs) |-> ExtractTimestamp(validIDs[k]).val]
        sorted == sortSlice("timestamps", validIDs, timestamps)
        firstTime == timestamps[1]
        lastTime == timestamps[Len(timestamps)]
    IN  IF Len(ids) = 0 THEN [val |-> ZeroStats, err |-> ""]
        ELSE IF Len(validIDs) = 0
        THEN [val |-> ZeroStats, err |-> "no valid ULIDs found"]
        ELSE [val |-> [Count |-> Len(validIDs),
                       TimeSpan |-> Sub(lastTime, firstTime),
                       FirstID |-> sorted[1],
                       LastID |-> sorted[Len(sorted)],
                       FirstTime |-> firstTime,
                       LastTime |-> lastTime],
              err |-> ""]

\* A FilterByTimeRange whose end is exclusive.
FilterByTimeRangeOpenEnd(ids, start, end) ==
    LET keep(id) ==
            LET timestamp == ExtractTimestamp(id)
            IN  timestamp.err = "" /\ timestamp.val >= start /\ timestamp.val < end
    IN  SelectSeq(ids, keep)

\* FilterByTimeRange: the entries whose instant is extracted and is start or
\* after it and end or before it are appended to the result, in order.
FilterByTimeRange(ids, start, end) ==
    LET keep(id) ==
            LET timestamp == ExtractTimestamp(id)
            IN  /\ timestamp.err = ""
                /\ (timestamp.val = start \/ timestamp.val > start)
                /\ (timestamp.val = end \/ timestamp.val < end)
    IN  SelectSeq(ids, keep)

\* A SortChronologically that sorts the caller's slice itself.
SortChronologicallyInPlace(ids) ==
    [val |-> sortSlice("Compare", ids, <<>>), shares |-> TRUE,
     ids |-> sortSlice("Compare", ids, <<>>)]

\* SortChronologically: a slice of at most one element is returned as it is
\* (the result shares the caller's array), a longer one is copied and the
\* copy sorted.  val is the result, ids the caller's slice after the call.
SortChronologically(ids) ==
    IF Len(ids) <= 1 THEN [val |-> ids, shares |-> TRUE, ids |-> ids]
    ELSE [val |-> sortSlice("Compare", ids, <<>>), shares |-> FALSE, ids |-> ids]

\* The loop of SortChronologicallyReverse: sorted[i] and sorted[len-1-i]
\* change places for i below len/2 (positions from 1 here).
RECURSIVE reverseFrom(_, _)
reverseFrom(sorted, i) ==
    IF i > Len(sorted) \div 2 THEN sorted
    ELSE reverseFrom(Swap(sorted, i, Len(sorted) + 1 - i), i + 1)

\* A SortChronologicallyReverse whose loop runs over the whole slice.
SortChronologicallyReverseFull(ids) ==
    LET sorted == SortChronologically(ids)
        swapped == reverseFrom(reverseFrom(sorted.val, 1), 1)
    IN  [val |-> swapped, ids |-> IF sorted.shares THEN swapped ELSE sorted.ids]

\* SortChronologicallyReverse reverses the slice SortChronologically
\* returned, in place: when that slice shares the caller's array, the writes
\* land in the caller's slice.
SortChronologicallyReverse(ids) ==
    LET sorted == SortChronologically(ids)
        swapped == reverseFrom(sorted.val, 1)
    IN  [val |-> swapped, ids |-> IF sorted.shares THEN swapped ELSE sorted.ids]

VARIABLES
    entropy,    \* the package variable entropy: the state of the monotonic reader
    entropyMu,  \* the package mutex: 0 when free, else the process holding it
    now,        \* the clock, in milliseconds
    pc,         \* per process: "idle", "lock" (at entropyMu.Lock), "mint" (in the lock)
    call,       \* per process: the generation call in progress
    last,       \* the call that ended last: its operation and how it ended
    minted,     \* every id ulid.MustNew returned, in minting order
    in,         \* the inputs of the pure operations
    out         \* the result of the last pure operation

vars == <<entropy, entropyMu, now, pc, call, last, minted, in, out>>

NoCall == [op |-> "none", g |-> "none", t |-> 0, end |-> 0, count |-> 0, i |-> 0]
NoInput == [a |-> <<>>, b |-> <<>>, c |-> <<>>]
NoOutput == [op |-> "none"]

InitGen ==
    /\ entropy = [ms |-> 0, entropy |-> 0]
    /\ entropyMu = 0
    /\ now = 0
    /\ pc = [p \in Procs |-> "idle"]
    /\ call = [p \in Procs |-> NoCall]
    /\ last = [op |-> "none", err |-> "", n |-> 0]
    /\ minted = <<>>

Init == InitGen /\ in = NoInput /\ out = NoOutput

\* The ids still to mint by the calls in progress.
RECURSIVE Pending(_)
Pending(ps) ==
    IF ps = {} THEN 0
    ELSE LET p == CHOOSE q \in ps : TRUE
         IN  (call[p].count - call[p].i) + Pending(ps \ {p})

Room(n) == Len(minted) + Pending(Procs) + n <= MaxMints

\* A call that goes on to entropyMu.Lock(): op with its generator g, the
\* instants t and end it was given and the number of ids it is to mint.
Enter(p, op, g, t, end, count) ==
    /\ pc[p] = "idle"
    /\ Room(count)
    /\ pc' = [pc EXCEPT ![p] = "lock"]
    /\ call' = [call EXCEPT ![p] = [op |-> op, g |-> g, t |-> t, end |-> end,
                                   count |-> count, i |-> 0]]
    /\ UNCHANGED <<entropy, entropyMu, now, last, minted, in, out>>

\* A call that returns []string{} before it locks.
ReturnEmpty(p, op) ==
    /\ pc[p] = "idle"
    /\ last' = [op |-> op, err |-> "", n |-> 0]
    /\ UNCHANGED <<entropy, entropyMu, now, pc, call, minted, in, out>>

\* time.Now(): the clock shows whole milliseconds.
TimeNow == now * Millisecond

\* Generate: time.Now() is read, then GenerateWithTime is called with it.
Generate(p, g) ==
    Enter(p, "Generate", g, TimeNow, 0, 1)

GenerateWithTime(p, g, t) ==
    Enter(p, "GenerateWithTime", g, t, 0, 1)

\* GenerateBatch with a guard that lets a count of zero through.
GenerateBatchFromZero(p, g, count) ==
    IF count < 0 THEN ReturnEmpty(p, "GenerateBatch")
    ELSE Enter(p, "GenerateBatch", g, 0, 0, count)

GenerateBatch(p, g, count) ==
    IF count <= 0 THEN ReturnEmpty(p, "GenerateBatch")
    ELSE Enter(p, "GenerateBatch", g, 0, 0, count)

GenerateRange(p, g, start, end, count) ==
    IF count <= 0 \/ end < start THEN ReturnEmpty(p, "GenerateRange")
    ELSE Enter(p, "GenerateRange", g, start, end, count)

\* A Lock that does not wait for the mutex to be free.
LockNoWait(p) ==
    /\ pc[p] = "lock"
    /\ entropyMu' = p
    /\ pc' = [pc EXCEPT ![p] = "mint"]
    /\ UNCHANGED <<entropy, now, call, last, minted, in, out>>

\* entropyMu.Lock()
Lock(p) ==
    /\ pc[p] = "lock"
    /\ entropyMu = 0
    /\ entropyMu' = p
    /\ pc' = [pc EXCEPT ![p] = "mint"]
    /\ UNCHANGED <<entropy, now, call, last, minted, in, out>>

\* The instant of the i-th id of GenerateRange(start, end, count): start plus
\* the offset int64(duration) * int64(i) / int64(count), in int64.
RangeOffset(duration, i, count) == Quo(Int64(duration * i), count)
RangeTimestamp(start, end, count, i) == start + RangeOffset(Sub(end, start), i, count)

\* The instant of the id a call mints next.
MintTime(c) ==
    IF c.op = "GenerateBatch" THEN TimeNow
    ELSE IF c.op = "GenerateRange" THEN RangeTimestamp(c.t, c.end, c.count, c.i)
    ELSE c.t

\* The ids of the call in the lock are "pending" until it ends: they are
\* "returned" when it returns its slice and "lost" when it panics.
Settle(how) ==
    [k \in 1..Len(minted) |->
        IF minted[k].state = "pending"
        THEN [minted[k] EXCEPT !.state = how] ELSE minted[k]]

\* One ulid.MustNew inside the lock, with what follows it: the next
\* iteration, or the return and the deferred entropyMu.Unlock(), or, when New
\* fails, the panic of MustNew unwinding through the deferred Unlock.
Mint(p) ==
    /\ pc[p] = "mint"
    /\ entropyMu = p
    /\ \E r \in ReadValues, inc \in 1..IncMax, readOk \in BOOLEAN :
          LET c == call[p]
              ms == Timestamp(MintTime(c))
              got == New(ms, entropySource(c.g), entropy, r, inc, readOk)
              ends == c.i + 1 = c.count
              entry == [id |-> String(got.id), t |-> MintTime(c), ms |-> ms,
                        g |-> c.g, op |-> c.op,
                        state |-> IF ends THEN "returned" ELSE "pending"]
          IN  /\ entropy' = got.m
              /\ IF got.err # ""
                 THEN /\ entropyMu' = 0
                      /\ pc' = [pc EXCEPT ![p] = "idle"]
                      /\ call' = [call EXCEPT ![p] = NoCall]
                      /\ last' = [op |-> c.op, err |-> got.err, n |-> 0]
                      /\ minted' = Settle("lost")
                 ELSE IF ends
                 THEN /\ entropyMu' = 0
                      /\ pc' = [pc EXCEPT ![p] = "idle"]
                      /\ call' = [call EXCEPT ![p] = NoCall]
                      /\ last' = [op |-> c.op, err |-> "", n |-> c.count]
                      /\ minted' = Append(Settle("returned"), entry)
                 ELSE /\ call' = [call EXCEPT ![p].i = c.i + 1]
                      /\ minted' = Append(minted, entry)
                      /\ UNCHANGED <<entropyMu, pc, last>>
    /\ UNCHANGED <<now, in, out>>

\* The clock advances.
Tick ==
    /\ now < MaxClock
    /\ now' = now + 1
    /\ UNCHANGED <<entropy, entropyMu, pc, call, last, minted, in, out>>

\* The counts and the instants the batch and range calls are made with.
BatchCounts == {-1, 0, MaxCount}
RangeCounts == {0, MaxCount}
RangeInstants == {0, MaxClock * Millisecond}

Next ==
    \/ \E p \in Procs, g \in Gens : Generate(p, g)
    \/ \E p \in Procs, g \in Gens, t \in GivenTimes : GenerateWithTime(p, g, t)
    \/ \E p \in Procs, g \in Gens, count \in BatchCounts : GenerateBatch(p, g, count)
    \/ \E p \in Procs, g \in Gens, start \in RangeInstants,
          end \in RangeInstants, count \in RangeCounts :
              GenerateRange(p, g, start, end, count)
    \/ \E p \in Procs : Lock(p)
    \/ \E p \in Procs : Mint(p)
    \/ Tick

Spec == Init /\ [][Next]_vars

\* ----------------------------------------------------- pure operations
\* The pure operations are applied to inputs drawn by the initial state.
\* Characters of the texts: of the alphabet ("8" and the letters too large for
\* the first place), in lower case, outside the alphabet above "7" ("U") and
\* below "0" ("-").
TextChars == {"0", "7", "8", "z", "Z", "U", "-"}
AllTexts == UNION {[1..n -> TextChars] : n \in 0..(EncodedSize + 1)}

\* Texts of the right length, by their first character, their last character
\* and the character that fills the places between.
Fill(h, m, t) ==
    [i \in 1..EncodedSize |-> IF i = 1 THEN h ELSE IF i = EncodedSize THEN t ELSE m]
OrderTexts ==
    {Fill(h, m, t) : h \in {"0", "7", "8"}, m \in {"0", "Z"},
                     t \in {"1", "A", "a", "Z", "U"}}

InitText ==
    /\ InitGen
    /\ in \in [a : AllTexts, b : {<<>>}, c : {<<>>}]
    /\ out = NoOutput

InitOrder ==
    /\ InitGen
    /\ in \in [a : OrderTexts, b : OrderTexts, c : OrderTexts]
    /\ out = NoOutput

genUnchanged == UNCHANGED <<entropy, entropyMu, now, pc, call, last, minted, in>>

CallIsIdValid ==
    /\ out' = [op |-> "IsIdValid", val |-> IsIdValid(in.a)]
    /\ genUnchanged

CallValidateAndNormalize ==
    /\ out' = [op |-> "ValidateAndNormalize",
               val |-> ValidateAndNormalize(in.a).val,
               err |-> ValidateAndNormalize(in.a).err]
    /\ genUnchanged

CallCompare ==
    /\ out' = [op |-> "Compare",
               aa |-> Compare(in.a, in.a), ab |-> Compare(in.a, in.b),
               ba |-> Compare(in.b, in.a), bc |-> Compare(in.b, in.c),
               ac |-> Compare(in.a, in.c)]
    /\ genUnchanged

CallIsBefore ==
    /\ out' = [op |-> "IsBefore", cmp |-> Compare(in.a, in.b),
               before |-> IsBefore(in.a, in.b), after |-> IsAfter(in.a, in.b),
               afterBA |-> IsAfter(in.b, in.a)]
    /\ genUnchanged

CallToUUID ==
    /\ out' = [op |-> "ToUUID", a |-> ToUUID(in.a), b |-> ToUUID(in.b)]
    /\ genUnchanged

NextText == CallIsIdValid \/ CallValidateAndNormalize
NextOrder == CallCompare \/ CallIsBefore \/ CallToUUID

SpecText == InitText /\ [][NextText]_vars
SpecOrder == InitOrder /\ [][NextOrder]_vars

\* The binary forms: every timestamp with the extremes of the randomness.
EntropySamples == {0, 1, maxRand - 1, maxRand}
ByteArrays == {Assemble(ms, e) : ms \in 0..maxTime, e \in EntropySamples}

\* Either a text or a binary form is drawn.
InitBytes ==
    /\ InitGen
    /\ in \in [a : AllTexts, b : {ZeroULID}, c : {<<>>}]
               \cup [a : {<<>>}, b : ByteArrays, c : {<<>>}]
    /\ out = NoOutput

\* ToBytes(a), and FromBytes of its result.
CallToBytes ==
    /\ out' = [op |-> "ToBytes", val |-> ToBytes(in.a).val, err |-> ToBytes(in.a).err,
               back |-> FromBytes(ToBytes(in.a).val)]
    /\ genUnchanged

\* FromBytes(b), and ToBytes of its result.
CallFromBytes ==
    /\ out' = [op |-> "FromBytes", val |-> FromBytes(in.b),
               back |-> ToBytes(FromBytes(in.b))]
    /\ genUnchanged

NextBytes == CallToBytes \/ CallFromBytes
SpecBytes == InitBytes /\ [][NextBytes]_vars

\* The collections: every list of at most MaxLen entries out of texts with
\* the same timestamp and different randomness, the same value in two cases,
\* later timestamps, a text outside the alphabet that parses, a text that
\* does not parse.
MaxLen == 3
ListTexts ==
    {Fill("0", "0", "1"), Fill("0", "0", "A"), Fill("0", "0", "a"),
     Fill("1", "0", "0"), Fill("7", "Z", "Z"), Fill("0", "0", "U"),
     Fill("8", "0", "0")}

\* Two collections of 13 entries, too long for the insertion sort alone: an
\* entry that does not parse among twelve valid ones, and thirteen valid ones.
Rank(ch) == Fill("0", "0", ch)
LongList(second) ==
    <<Rank("A"), second, Rank("1"), Rank("6"), Rank("7"), Rank("8"), Rank("5"),
      Rank("9"), Rank("B"), Rank("C"), Rank("2"), Rank("3"), Rank("4")>>
LongLists == {LongList(Fill("8", "0", "0")), LongList(Rank("D"))}

Lists == UNION {[1..n -> ListTexts] : n \in 0..MaxLen} \cup LongLists

\* The ends of a time range: whole milliseconds and an instant between two.
FilterTimes == {0, Millisecond, Millisecond + 1, maxTime * Millisecond}

\* in.a is the caller's slice, in.b what it held before the call.
InitList ==
    /\ InitGen
    /\ in \in {[a |-> l, b |-> l, c |-> <<>>] : l \in Lists}
    /\ out = NoOutput

\* One call is made on the collection drawn.
Fresh == out = NoOutput
listUnchanged == UNCHANGED <<entropy, entropyMu, now, pc, call, last, minted>>

CallAnalyzeIDs ==
    /\ Fresh
    /\ out' = [op |-> "AnalyzeIDs", val |-> AnalyzeIDs(in.a).val,
               err |-> AnalyzeIDs(in.a).err]
    /\ in' = in
    /\ listUnchanged

CallFilterByTimeRange ==
    /\ Fresh
    /\ \E start \in FilterTimes, end \in FilterTimes :
          out' = [op |-> "FilterByTimeRange", start |-> start, end |-> end,
                  val |-> FilterByTimeRange(in.a, start, end)]
    /\ in' = in
    /\ listUnchanged

\* SortChronologically(a), and SortChronologically of its result.
CallSortChronologically ==
    /\ Fresh
    /\ out' = [op |-> "SortChronologically", val |-> SortChronologically(in.a).val,
               again |-> SortChronologically(SortChronologically(in.a).val).val]
    /\ in' = [in EXCEPT !.a = SortChronologically(in.a).ids]
    /\ listUnchanged

CallSortChronologicallyReverse ==
    /\ Fresh
    /\ out' = [op |-> "SortChronologicallyReverse",
               val |-> SortChronologicallyReverse(in.a).val]
    /\ in' = [in EXCEPT !.a = SortChronologicallyReverse(in.a).ids]
    /\ listUnchanged

NextList ==
    \/ CallAnalyzeIDs
    \/ CallFilterByTimeRange
    \/ CallSortChronologically
    \/ CallSortChronologicallyReverse
SpecList == InitList /\ [][NextList]_vars

\* The time ranges: a start on and off a whole millisecond or late, an end that is
\* before it, equal to it, or after it by a span up to the longest duration,
\* and the index i of one of the count ids.
MaxN == 3
RangeStarts == {0, 1, Millisecond + 1, maxInt64}
RangeSpans ==
    {-1, 0, 1, Millisecond, maxInt64 \div 2, maxInt64 \div 2 + 1, maxInt64}
InitRange ==
    /\ InitGen
    /\ in \in {[start |-> s, end |-> s + d, count |-> n, i |-> i] :
                  s \in RangeStarts, d \in RangeSpans, n \in 1..MaxN, i \in 0..(MaxN - 1)}
    /\ in.i < in.count
    /\ out = NoOutput

\* The i-th id of GenerateRange(start, end, count) on a secure generator
\* whose reads return r.
CallGenerateRange ==
    /\ Fresh
    /\ \E r \in ReadValues :
          LET timestamp == RangeTimestamp(in.start, in.end, in.count, in.i)
              got == New(Timestamp(timestamp), "rand.Reader", entropy, r, 1, TRUE)
          IN  out' = IF in.end < in.start
                     THEN [op |-> "GenerateRange", n |-> 0, err |-> "", id |-> <<>>]
                     ELSE [op |-> "GenerateRange", n |-> in.count, err |-> got.err,
                           id |-> String(got.id)]
    /\ genUnchanged

NextRange == CallGenerateRange
SpecRange == InitRange /\ [][NextRange]_vars

\* ------------------------------------------------ claims on the generator
IsDefault(g) == entropySource(g) = "entropy"
Minted == 1..Len(minted)

\* C1: for one default generator, ids minted one after the other with the
\* same millisecond timestamp are strictly increasing under Compare.
C1_SameMsStrictlyIncreasing ==
    \A k \in Minted : \A l \in Minted :
        (/\ l = k + 1
         /\ minted[k].g = minted[l].g
         /\ IsDefault(minted[k].g)
         /\ minted[k].ms = minted[l].ms)
        => Compare(minted[k].id, minted[l].id) = [val |-> -1, err |-> ""]

\* C2: no two ids returned by calls on one shared default generator are equal.
C2_NoTwoReturnedIdsEqual ==
    \A k \in Minted : \A l \in Minted :
        (/\ k < l
         /\ minted[k].g = minted[l].g
         /\ IsDefault(minted[k].g)
         /\ minted[k].state = "returned"
         /\ minted[l].state = "returned")
        => minted[k].id # minted[l].id

\* C3: of two Generate() calls on one shared default generator, the one that
\* mints first (holds the lock first) has the smaller id under Compare.
C3_LockOrderIsIdOrder ==
    \A k \in Minted : \A l \in Minted :
        (/\ k < l
         /\ minted[k].g = minted[l].g
         /\ IsDefault(minted[k].g)
         /\ minted[k].op = "Generate"
         /\ minted[l].op = "Generate")
        => Compare(minted[k].id, minted[l].id) = [val |-> -1, err |-> ""]

\* C4: a generation call on one instance never waits at the lock while a call
\* on a different instance holds it.
C4_NoWaitOnOtherInstance ==
    \A p \in Procs : \A q \in Procs :
        (pc[p] = "lock" /\ entropyMu = q /\ q # p) => call[p].g = call[q].g

\* C7 as stated: ids whose timestamps satisfy t_a <= t_b compare <= 0,
\* whatever the order of the two calls and whichever generator minted them.
C7_TimeOrderWeak ==
    \A k \in Minted : \A l \in Minted :
        (k # l /\ minted[k].ms <= minted[l].ms)
        => /\ Compare(minted[k].id, minted[l].id).err = ""
           /\ Compare(minted[k].id, minted[l].id).val <= 0

\* C7 amended: ids whose millisecond timestamps satisfy ms_a < ms_b compare
\* < 0, whatever the order of the two calls and whichever generator minted them.
C7_TimeOrderStrict ==
    \A k \in Minted : \A l \in Minted :
        minted[k].ms < minted[l].ms
        => Compare(minted[k].id, minted[l].id) = [val |-> -1, err |-> ""]

\* The later timestamp was minted first, by another kind of generator.
C7_Witness ==
    \E k \in Minted : \E l \in Minted :
        /\ l < k
        /\ minted[k].ms < minted[l].ms
        /\ IsDefault(minted[k].g) # IsDefault(minted[l].g)

\* C8: a call whose increment of the previous randomness overflows does not
\* end in a panic.
C8_OverflowDoesNotPanic == last.err # "ErrMonotonicOverflow"

\* C9: GenerateWithTime and GenerateRange return to the caller without a
\* panic, for every instant and every entropy source.
C9_NeverPanics ==
    last.op \in {"GenerateWithTime", "GenerateRange"} => last.err = ""

\* ------------------------------------------ claims on the pure operations
\* What the specification calls a valid text: the right length, every
\* character in the alphabet in either case, the first one encoding at most 7.
InAlphabet(ch) == InSeq(Encoding, UpperChar(ch))
WellFormed(s) ==
    /\ Len(s) = EncodedSize
    /\ \A i \in 1..Len(s) : InAlphabet(s[i])
    /\ IndexOf(Encoding, UpperChar(s[1])) - 1 <= 7
Canonical(s) == WellFormed(s) /\ ToUpper(s) = s

\* C5: IsIdValid(s) is true exactly for the texts of the right length whose
\* characters are all in the alphabet and whose first character encodes at most 7.
C5_ValidIffWellFormed ==
    out.op = "IsIdValid" => out.val = WellFormed(in.a)

\* C10: ValidateAndNormalize(s) returns (uppercase(s), no error) for a valid
\* text in any case and ("", an error) for the empty and every malformed text.
C10_NormalizeOrError ==
    out.op = "ValidateAndNormalize" =>
        IF WellFormed(in.a)
        THEN out.val = ToUpper(in.a) /\ out.err = ""
        ELSE out.val = <<>> /\ out.err # ""

\* The sign of the comparison of two integers.
Sign(x, y) == IF x < y THEN -1 ELSE IF x > y THEN 1 ELSE 0

\* The sign of the comparison of two sequences of the same length by the
\* first place where they differ, under the order of their elements by key.
FirstDiff(x, y) ==
    CHOOSE i \in 1..(Len(x) + 1) :
        /\ i <= Len(x) => x[i] # y[i]
        /\ \A j \in 1..(i - 1) : x[j] = y[j]
LexSign(x, y, key(_)) ==
    LET i == FirstDiff(x, y)
    IN  IF i > Len(x) THEN 0 ELSE Sign(key(x[i]), key(y[i]))
Same(b) == b

\* The numeric order of (timestamp, randomness).
FieldSign(x, y) ==
    IF Time(x) # Time(y) THEN Sign(Time(x), Time(y))
    ELSE Sign(Entropy(x), Entropy(y))

\* C6: on valid ULIDs Compare is a total order with results in {-1, 0, 1},
\* and on canonical uppercase texts its sign is that of the byte-wise
\* comparison of the texts, of the lexicographic comparison of the binary
\* forms and of the numeric comparison of (timestamp, randomness).
C6_CompareTotalOrder ==
    (/\ out.op = "Compare"
     /\ WellFormed(in.a) /\ WellFormed(in.b) /\ WellFormed(in.c))
    => /\ \A r \in {out.aa, out.ab, out.ba, out.bc, out.ac} :
              r.err = "" /\ r.val \in {-1, 0, 1}
       /\ out.aa.val = 0
       /\ out.ab.val = -out.ba.val
       /\ (out.ab.val = 0) = (ToBytes(in.a).val = ToBytes(in.b).val)
       /\ (out.ab.val <= 0 /\ out.bc.val <= 0) => out.ac.val <= 0
       /\ (out.ab.val < 0 /\ out.bc.val <= 0) => out.ac.val < 0
       /\ (Canonical(in.a) /\ Canonical(in.b)) =>
              /\ out.ab.val = LexSign(in.a, in.b, Ord)
              /\ out.ab.val = LexSign(ToBytes(in.a).val, ToBytes(in.b).val, Same)
              /\ out.ab.val = FieldSign(ToBytes(in.a).val, ToBytes(in.b).val)

\* Three canonical texts in strictly increasing order, the first two with the
\* same timestamp, so that the randomness decides their order.
C6_Witness ==
    /\ out.op = "Compare"
    /\ Canonical(in.a) /\ Canonical(in.b) /\ Canonical(in.c)
    /\ Time(ToBytes(in.a).val) = Time(ToBytes(in.b).val)
    /\ out.ab.val = -1 /\ out.bc.val = -1 /\ out.ac.val = -1

\* C11: for every binary form b, FromBytes(b) is a text of EncodedSize
\* characters that IsIdValid accepts and ToBytes(FromBytes(b)) = b with no
\* error; for every valid text s, FromBytes(ToBytes(s)) = uppercase(s).
C11_BinaryRoundTrip ==
    /\ out.op = "FromBytes" =>
          /\ Len(out.val) = EncodedSize
          /\ IsIdValid(out.val)
          /\ out.back = [val |-> in.b, err |-> ""]
    /\ (out.op = "ToBytes" /\ WellFormed(in.a)) =>
          /\ out.err = ""
          /\ out.back = ToUpper(in.a)

\* A binary form with bits set in both fields went to text and back.
C11_Witness ==
    /\ out.op = "FromBytes"
    /\ Time(in.b) = maxTime /\ Entropy(in.b) = maxRand - 1
    /\ out.back.val = in.b


\* C12: for every instant t whose milliseconds lie in 0..maxTime,
\* ExtractTimestamp of the id GenerateWithTime(t) returned gives no error and
\* t rounded down to a whole millisecond, whatever randomness the id carries.
C12_ExtractGivesGivenTime ==
    \A k \in Minted :
        (/\ minted[k].op = "GenerateWithTime"
         /\ UnixMilli(minted[k].t) \in 0..maxTime)
        => LET got == ExtractTimestamp(minted[k].id)
           IN  /\ got.err = ""
               /\ got.val = UnixMilli(minted[k].t) * Millisecond
               /\ minted[k].t - got.val \in 0..(Millisecond - 1)

\* Two ids of the last instant of the range, which is not a whole
\* millisecond, with different randomness.
C12_Witness ==
    \E k \in Minted : \E l \in Minted :
        /\ minted[k].op = "GenerateWithTime" /\ minted[l].op = "GenerateWithTime"
        /\ minted[k].t = (maxTime + 1) * Millisecond - 1
        /\ minted[l].t = minted[k].t
        /\ minted[k].id # minted[l].id
        /\ ExtractTimestamp(minted[k].id).val = maxTime * Millisecond


\* ------------------------------------------------ claims on collections
\* The entries of the collection that parse, by position.
Parseable == {k \in 1..Len(in.b) : IsIdValid(in.b[k])}
TimeOf(k) == Time(Parse(in.b[k]).id) * Millisecond

\* C13: for a collection with at least one parseable entry, in any order,
\* AnalyzeIDs returns FirstTime = the least and LastTime = the greatest
\* timestamp of the parseable entries, and TimeSpan = LastTime - FirstTime,
\* which is not negative.
C13_FirstIsMinLastIsMax ==
    (out.op = "AnalyzeIDs" /\ Parseable # {}) =>
        /\ \E k \in Parseable : out.val.FirstTime = TimeOf(k)
        /\ \E k \in Parseable : out.val.LastTime = TimeOf(k)
        /\ \A k \in Parseable :
              out.val.FirstTime <= TimeOf(k) /\ TimeOf(k) <= out.val.LastTime
        /\ out.val.TimeSpan = out.val.LastTime - out.val.FirstTime
        /\ out.val.TimeSpan >= 0

\* C14: AnalyzeIDs returns the zero Stats and no error for the empty
\* collection, the zero Stats and an error for a collection without a
\* parseable entry, and otherwise no error and Count = the number of
\* parseable entries, duplicates counted.
C14_CountsParseable ==
    out.op = "AnalyzeIDs" =>
        IF Len(in.b) = 0 THEN out.val = ZeroStats /\ out.err = ""
        ELSE IF Parseable = {} THEN out.val = ZeroStats /\ out.err # ""
        ELSE out.err = "" /\ out.val.Count = Cardinality(Parseable)

\* The same entry twice and an entry that does not parse: Count is 2.
C14_Witness ==
    /\ out.op = "AnalyzeIDs"
    /\ Len(in.b) = 3
    /\ Cardinality(Parseable) = 2
    /\ \E k \in Parseable : \E l \in Parseable : k # l /\ in.b[k] = in.b[l]
    /\ out.val.Count = 2

\* The entries of ids at the positions keep, in the order of the positions.
Pick(ids, keep) ==
    [j \in 1..Cardinality(keep) |->
        ids[CHOOSE k \in keep : Cardinality({m \in keep : m < k}) = j - 1]]

\* C15: FilterByTimeRange(ids, start, end) is the subsequence of ids, in
\* order and with multiplicity, of the parseable entries whose timestamp ts
\* has start <= ts <= end; it is empty when start is after end.
C15_FilterIsClosedRange ==
    out.op = "FilterByTimeRange" =>
        /\ out.val = Pick(in.b, {k \in Parseable :
                                    out.start <= TimeOf(k) /\ TimeOf(k) <= out.end})
        /\ out.start > out.end => out.val = <<>>

\* The entries at the two ends of the range are kept, in input order, and
\* the entry that does not parse is dropped.
C15_Witness ==
    /\ out.op = "FilterByTimeRange"
    /\ out.start = Millisecond /\ out.end = maxTime * Millisecond
    /\ in.b = <<Fill("8", "0", "0"), Fill("7", "Z", "Z"), Fill("1", "0", "0")>>
    /\ \E k \in Parseable : TimeOf(k) = out.start
    /\ \E k \in Parseable : TimeOf(k) = out.end
    /\ out.val = <<Fill("7", "Z", "Z"), Fill("1", "0", "0")>>

\* The number of places of s that hold x.
CountOf(s, x) == Cardinality({k \in 1..Len(s) : s[k] = x})
IsPermutation(s, t) ==
    /\ Len(s) = Len(t)
    /\ \A k \in 1..Len(s) : CountOf(s, s[k]) = CountOf(t, s[k])
AllValid(s) == \A k \in 1..Len(s) : WellFormed(s[k])

\* C16: for a collection of valid ULIDs, SortChronologically returns a
\* permutation of the input in which every adjacent pair has Compare <= 0,
\* and sorting the result again returns it unchanged.
C16_SortedPermutation ==
    (out.op = "SortChronologically" /\ AllValid(in.b)) =>
        /\ IsPermutation(out.val, in.b)
        /\ \A k \in 1..(Len(out.val) - 1) :
              /\ Compare(out.val[k], out.val[k + 1]).err = ""
              /\ Compare(out.val[k], out.val[k + 1]).val <= 0
        /\ out.again = out.val

\* Three valid entries given in descending order come out in ascending order.
C16_Witness ==
    /\ out.op = "SortChronologically"
    /\ in.b = <<Fill("7", "Z", "Z"), Fill("1", "0", "0"), Fill("0", "0", "A")>>
    /\ out.val = <<Fill("0", "0", "A"), Fill("1", "0", "0"), Fill("7", "Z", "Z")>>

\* The entries of s whose timestamp is extracted and is ts, in order.
WithTime(s, ts) ==
    LET at(id) == ExtractTimestamp(id) = [val |-> ts, err |-> ""]
    IN  SelectSeq(s, at)

\* C17: SortChronologically is stable by extracted timestamp: the entries
\* with one and the same extracted timestamp are in the output in the order
\* they had in the input.
C17_StableByTimestamp ==
    out.op = "SortChronologically" =>
        \A k \in Parseable : WithTime(out.val, TimeOf(k)) = WithTime(in.b, TimeOf(k))

\* The sequence s read back to front.
BackToFront(s) == [k \in 1..Len(s) |-> s[Len(s) + 1 - k]]

\* C18: SortChronologicallyReverse(ids) is SortChronologically(ids) read
\* back to front; for valid ULIDs every adjacent pair of it has Compare >= 0.
C18_ReverseOfSorted ==
    out.op = "SortChronologicallyReverse" =>
        /\ out.val = BackToFront(SortChronologically(in.b).val)
        /\ AllValid(in.b) =>
              \A k \in 1..(Len(out.val) - 1) :
                  /\ Compare(out.val[k], out.val[k + 1]).err = ""
                  /\ Compare(out.val[k], out.val[k + 1]).val >= 0

\* Three valid entries given in ascending order come out in descending order.
C18_Witness ==
    /\ out.op = "SortChronologicallyReverse"
    /\ in.b = <<Fill("0", "0", "1"), Fill("0", "0", "A"), Fill("1", "0", "0")>>
    /\ out.val = <<Fill("1", "0", "0"), Fill("0", "0", "A"), Fill("0", "0", "1")>>

\* C19: AnalyzeIDs, FilterByTimeRange, SortChronologically and
\* SortChronologicallyReverse leave the caller's slice as it was, for every
\* input, of length 0 and 1 and with entries that do not parse too.
C19_InputUnchanged ==
    out.op \in {"AnalyzeIDs", "FilterByTimeRange", "SortChronologically",
                 "SortChronologicallyReverse"} => in.a = in.b

\* A reverse sort that moved entries, one of them not parseable, in its result.
C19_Witness ==
    /\ out.op = "SortChronologicallyReverse"
    /\ Len(in.b) >= 2
    /\ \E k \in 1..Len(in.b) : ~IsIdValid(in.b[k])
    /\ out.val # in.b
    /\ in.a = in.b


\* C20: for start <= end, n > 0 and 0 <= i < n, the i-th id of
\* GenerateRange(start, end, n) carries the timestamp of the instant
\* start + (end - start) * i / n, the quotient rounded toward zero, also when
\* (end - start) * i does not fit in an int64.
C20_RangeTimestampExact ==
    (out.op = "GenerateRange" /\ in.start <= in.end) =>
        /\ out.err = ""
        /\ Time(Parse(out.id).id) =
              UnixMilli(in.start + Quo((in.end - in.start) * in.i, in.count))


\* C21: for end not before start and n > 0, every id GenerateRange(start,
\* end, n) returns has an extracted timestamp ts with start <= ts < end, also
\* when start = end and when start is not on a whole millisecond.
C21_RangeWithinStartEnd ==
    (out.op = "GenerateRange" /\ in.start <= in.end /\ out.err = "") =>
        LET ts == ExtractTimestamp(out.id)
        IN  /\ ts.err = ""
            /\ in.start <= ts.val
            /\ ts.val < in.end


\* The batch and range calls alone, running concurrently.
NextBatch ==
    \/ \E p \in Procs, g \in Gens, count \in BatchCounts : GenerateBatch(p, g, count)
    \/ \E p \in Procs, g \in Gens, start \in RangeInstants,
          end \in RangeInstants, count \in RangeCounts :
              GenerateRange(p, g, start, end, count)
    \/ \E p \in Procs : Lock(p)
    \/ \E p \in Procs : Mint(p)
    \/ Tick

SpecBatch == Init /\ [][NextBatch]_vars

\* The step sends p to the lock with a call of op.
GoesOn(p, op) ==
    /\ pc[p] = "idle"
    /\ pc'[p] = "lock"
    /\ call'[p].op = op

\* The step is a call of op that returned an empty slice.
ReturnsEmpty(op) ==
    /\ pc' = pc
    /\ last' # last
    /\ last' = [op |-> op, err |-> "", n |-> 0]

\* The call of p returns: its slice is the last call[p].count entries minted,
\* all minted by this call.
ReturnsAll(p) ==
    LET c == call[p]
        first == Len(minted') - c.count + 1
    IN  /\ last'.n = c.count
        /\ c.count > 0
        /\ first >= 1
        /\ \A k \in first..Len(minted') :
              /\ minted'[k].state = "returned"
              /\ minted'[k].op = c.op
              /\ minted'[k].g = c.g
              /\ k <= Len(minted) => minted[k].state = "pending"
        /\ \A k \in 1..(first - 1) : minted'[k] = minted[k]

\* Every call that goes on to mint was given a count above zero (and an end
\* not before its start) and is to mint that many ids; no call given such
\* inputs returns empty; a call that returns empty leaves the lock, the
\* monotonic reader and the ids minted as they were; a call that returns from
\* the lock returns as many ids as it was given as count.
C22_Step ==
    /\ \A p \in Procs :
          GoesOn(p, "GenerateBatch") =>
              call'[p].count > 0 /\ call'[p].i = 0
    /\ \A p \in Procs :
          GoesOn(p, "GenerateRange") =>
              call'[p].count > 0 /\ call'[p].i = 0 /\ call'[p].end >= call'[p].t
    /\ ReturnsEmpty("GenerateBatch") =>
          /\ UNCHANGED <<entropy, entropyMu, call, minted>>
          /\ \A p \in Procs, g \in Gens, count \in BatchCounts :
                count > 0 => ~GenerateBatch(p, g, count)
    /\ ReturnsEmpty("GenerateRange") =>
          /\ UNCHANGED <<entropy, entropyMu, call, minted>>
          /\ \A p \in Procs, g \in Gens, start \in RangeInstants,
                end \in RangeInstants, count \in RangeCounts :
                    (count > 0 /\ end >= start) =>
                        ~GenerateRange(p, g, start, end, count)
    /\ \A p \in Procs :
          (/\ pc[p] = "mint"
           /\ pc'[p] = "idle"
           /\ last'.err = ""
           /\ call[p].op \in {"GenerateBatch", "GenerateRange"}) => ReturnsAll(p)

\* C22: GenerateBatch(n) returns exactly n ids when n > 0 and an empty
\* sequence when n <= 0; GenerateRange(start, end, n) returns exactly n ids
\* when n > 0 and end is not before start, and an empty sequence otherwise;
\* the empty cases consume no entropy and leave the monotonic state unchanged.
\* (Of the calls that return: a call whose minting panics returns nothing.)
C22_BatchAndRangeSizes == [][C22_Step]_vars

\* A batch of MaxCount ids was returned, and then a range call returned empty.
C22_Witness ==
    /\ last = [op |-> "GenerateRange", err |-> "", n |-> 0]
    /\ entropy.entropy # 0
    /\ \E k \in 2..Len(minted) :
          \A j \in {k - 1, k} :
              minted[j].op = "GenerateBatch" /\ minted[j].state = "returned"

\* ------------------------------------------------------------ ages
\* Age: time.Since(timestamp) is time.Now().Sub(timestamp).
Age(id) ==
    LET timestamp == ExtractTimestamp(id)
    IN  IF timestamp.err # "" THEN [val |-> 0, err |-> timestamp.err]
        ELSE [val |-> Sub(TimeNow, timestamp.val), err |-> ""]

IsExpired(id, maxAge) ==
    LET age == Age(id)
    IN  IF age.err # "" THEN [val |-> FALSE, err |-> age.err]
        ELSE [val |-> age.val > maxAge, err |-> ""]

\* The ages asked about: below zero, zero, a millisecond, the longest.
MaxAges == {-Millisecond, 0, Millisecond, maxInt64}

CallExtractTimestamp ==
    /\ out' = [op |-> "ExtractTimestamp", val |-> ExtractTimestamp(in.a).val,
               err |-> ExtractTimestamp(in.a).err]
    /\ genUnchanged

CallIsExpired ==
    \E maxAge \in MaxAges :
        /\ out' = [op |-> "IsExpired", now |-> TimeNow, maxAge |-> maxAge,
                   age |-> Age(in.a), val |-> IsExpired(in.a, maxAge)]
        /\ genUnchanged

NextTime == CallExtractTimestamp \/ CallIsExpired \/ Tick
SpecTime == InitText /\ [][NextTime]_vars

\* C23: for a valid id IsExpired(id, maxAge) is true exactly when now less the
\* extracted timestamp is above maxAge; for an invalid id Age returns 0 and
\* IsExpired false, both with the error of the extraction.
C23_ExpiredIffOlder ==
    out.op = "IsExpired" =>
        LET ts == ExtractTimestamp(in.a)
        IN  IF WellFormed(in.a)
            THEN /\ ts.err = "" /\ out.age.err = "" /\ out.val.err = ""
                 /\ out.val.val = (out.now - ts.val > out.maxAge)
            ELSE /\ ts.err # ""
                 /\ out.age = [val |-> 0, err |-> ts.err]
                 /\ out.val = [val |-> FALSE, err |-> ts.err]

\* C24: for valid a and b IsBefore(a, b) is Compare(a, b) < 0, IsAfter(a, b) is
\* Compare(a, b) > 0 and IsBefore(a, b) is IsAfter(b, a), so that at most one
\* of the two is true; when an input is invalid Compare returns 0 and an error
\* and IsBefore and IsAfter return false and that error, which names the first
\* input when both are invalid.
C24_BeforeAfterFromCompare ==
    out.op = "IsBefore" =>
        IF WellFormed(in.a) /\ WellFormed(in.b)
        THEN /\ out.cmp.err = ""
             /\ out.before = [val |-> out.cmp.val < 0, err |-> ""]
             /\ out.after = [val |-> out.cmp.val > 0, err |-> ""]
             /\ out.afterBA = [val |-> out.before.val, err |-> ""]
             /\ ~(out.before.val /\ out.after.val)
        ELSE /\ out.cmp.val = 0
             /\ out.cmp.err =
                    IF WellFormed(in.a) THEN "invalid second ULID"
                    ELSE "invalid first ULID"
             /\ out.before = [val |-> FALSE, err |-> out.cmp.err]
             /\ out.after = [val |-> FALSE, err |-> out.cmp.err]

\* The places of the "-" in a ToUUID result and its text without them.
HyphenPlaces == {Min(GroupEnds[k + 1], HexDigits) + k : k \in 1..4}
IsHyphen(ch) == ch = "-"
IsHexDigit(ch) == InSeq(hextable, ch)
NotHyphen(ch) == ~IsHyphen(ch)

\* C25: for a valid id ToUUID returns the hexadecimal digits of the bytes of
\* ToBytes(id), all of them and in order, in lowercase, in five groups
\* separated by "-" (8-4-4-4-12, 36 characters, for 16 bytes); distinct
\* values give distinct results; an invalid id gives "" and an error.
C25_UUIDShape ==
    out.op = "ToUUID" =>
        /\ IF WellFormed(in.a)
           THEN /\ out.a.err = ""
                /\ Len(out.a.val) = HexDigits + 4
                /\ \A i \in 1..Len(out.a.val) :
                      IF i \in HyphenPlaces THEN IsHyphen(out.a.val[i])
                      ELSE IsHexDigit(out.a.val[i])
                /\ SelectSeq(out.a.val, NotHyphen) = Sprintfx(ToBytes(in.a).val)
           ELSE out.a.val = <<>> /\ out.a.err # ""
        /\ (/\ WellFormed(in.a) /\ WellFormed(in.b)
            /\ ToBytes(in.a).val # ToBytes(in.b).val) => out.a.val # out.b.val

\* C26: every id a generation call returns, whichever the call and the kind
\* of generator, is a text of EncodedSize (26) characters of the alphabet in
\* uppercase whose first character is one of 0..7, and IsIdValid of it is true.
C26_ReturnedIdsCanonical ==
    \A k \in Minted :
        minted[k].state = "returned" =>
            /\ Len(minted[k].id) = EncodedSize
            /\ Canonical(minted[k].id)
            /\ IsIdValid(minted[k].id)

\* Ids were returned by a secure and by a custom generator, one of them with
\* a letter and with the greatest first character.
C26_Witness ==
    \E k \in Minted : \E l \in Minted :
        /\ minted[k].state = "returned" /\ minted[l].state = "returned"
        /\ minted[k].g = "secure" /\ minted[l].g = "custom"
        /\ minted[k].id[1] = "7"
        /\ minted[k].id[EncodedSize] = "Z"

\* The entries of s that are x or y, in order.
Among(s, x, y) ==
    LET either(e) == e = x \/ e = y
    IN  SelectSeq(s, either)

\* C27: for a collection with entries that do not parse, SortChronologically
\* returns a permutation of the input in which every two entries whose
\* comparison fails are in the order they had in the input.
C27_FailedPairsKeepOrder ==
    (out.op = "SortChronologically" /\ \E k \in 1..Len(in.b) : ~IsIdValid(in.b[k])) =>
        /\ IsPermutation(out.val, in.b)
        /\ \A k \in 1..Len(in.b) : \A l \in 1..Len(in.b) :
              Compare(in.b[k], in.b[l]).err # "" =>
                  Among(out.val, in.b[k], in.b[l]) = Among(in.b, in.b[k], in.b[l])

\* C28: in the Stats AnalyzeIDs returns without error for a collection with a
\* parseable entry, FirstID and LastID are entries of the input whose
\* extracted timestamps are FirstTime and LastTime, in every input order.
C28_FirstLastIdsMatchTimes ==
    (out.op = "AnalyzeIDs" /\ out.err = "" /\ out.val.Count > 0) =>
        /\ \E k \in 1..Len(in.b) : in.b[k] = out.val.FirstID
        /\ \E k \in 1..Len(in.b) : in.b[k] = out.val.LastID
        /\ ExtractTimestamp(out.val.FirstID) = [val |-> out.val.FirstTime, err |-> ""]
        /\ ExtractTimestamp(out.val.LastID) = [val |-> out.val.LastTime, err |-> ""]

\* C29: ExtractTimestamp(s) returns an error exactly when IsIdValid(s) is
\* false; for every text IsIdValid accepts it returns an instant from the
\* epoch to the epoch plus maxTime (2^48 - 1) milliseconds, and the error
\* "timestamp too large" is returned for no input.
C29_ExtractFailsIffInvalid ==
    out.op = "ExtractTimestamp" =>
        /\ (out.err # "") = ~IsIdValid(in.a)
        /\ IsIdValid(in.a) => (0 <= out.val /\ out.val <= maxTime * Millisecond)
        /\ out.err # "timestamp too large"

\* The greatest timestamp was extracted.
C29_Witness ==
    /\ out.op = "ExtractTimestamp"
    /\ in.a = <<"7", "Z">> \o [i \in 1..(EncodedSize - 2) |-> "Z"]
    /\ out.err = ""
    /\ out.val = maxTime * Millisecond

\* ------------------------------------------------------------ fairness
\* The scheduler runs every call that can take a step. A call in the lock
\* goes on minting: weak fairness of Mint(p), WF_vars(Mint(p)), written with
\* the condition that enables Mint(p), which is pc[p] = "mint". A call waiting
\* at entropyMu.Lock() gets the mutex when it is free again and again:
\* sync.Mutex hands the mutex over to a waiter that has waited long.
SpecFair ==
    /\ Spec
    /\ \A p \in Procs : []<>(pc[p] # "mint") \/ []<><<Mint(p)>>_vars
    /\ \A p \in Procs : SF_vars(Lock(p))

\* At most one call is in the lock and entropyMu names it.
OneHolder ==
    /\ \A p \in Procs : \A q \in Procs :
          (pc[p] = "mint" /\ pc[q] = "mint") => p = q
    /\ \A p \in Procs : (pc[p] = "mint") = (entropyMu = p)

\* While a call is in progress, some call can take a step.
NoDeadlock ==
    (\E p \in Procs : pc[p] # "idle") =>
        \E p \in Procs : \/ pc[p] = "lock" /\ entropyMu = 0
                         \/ pc[p] = "mint" /\ entropyMu = p

\* C30: at most one generation call holds the lock at a time, every call
\* that took it has released it when it has returned or unwound (after a
\* panic of the minting too), no state is a deadlock, and under a fair
\* scheduler every call in progress eventually completes.
C30_LockedCallsComplete ==
    /\ [](OneHolder /\ NoDeadlock)
    /\ \A p \in Procs : (pc[p] # "idle") ~> (pc[p] = "idle")

\* A call panicked in the lock while the other call waited for the lock,
\* which is free again.
C30_Witness ==
    /\ last.err # ""
    /\ entropyMu = 0
    /\ \E p \in Procs : pc[p] = "lock"
====
